---- MODULE Spec2Model ----
(***************************************************************************)
(* Model of src/lambdas/LambdaGlueJobSuccess/index.py: the handler that    *)
(* reacts to a finished Glue job, runs a crawler, picks a catalog table    *)
(* and validates it with an Athena query; and of src/deploy.py: the script *)
(* that prepares the deployment bucket, uploads the archives and deploys   *)
(* the stack.                                                              *)
(*                                                                         *)
(* Strings the code inspects character by character (job names, table      *)
(* names, prefixes) are sequences of one-character strings, so that `in`   *)
(* and the prefix expression are computed, not assumed.                    *)
(***************************************************************************)
EXTENDS Integers, Sequences, FiniteSets, TLC

VARIABLES
    pc,            \* per invocation: the statement lambda_handler is at
    event,         \* per invocation: the event argument
    job_name,      \* locals of lambda_handler, per invocation
    crawler_name,
    table_prefix,
    waited,
    status,
    tables,
    table_name,
    qid,
    q,
    state,
    ret,           \* the handler's return value (None until it returns)
    log,           \* warnings and errors the invocation has logged, in order
    ncalls,        \* per invocation: number of calls made to each service operation
    lastCall,      \* per invocation: the service operation called last
    sleeps,        \* per invocation: number of time.sleep(5) done in the crawler wait
    crawler,       \* Glue: state of each crawler, by name
    executions,    \* Athena: the query executions, by QueryExecutionId
    dpc,           \* deploy.py: the statement main is at, in whichever function
    source_no,     \* main: number of entries of lambda_sources handled so far
    lambda_versions, \* main: the dict of line 116
    files,         \* main: the files of glu_jobs that os.walk has still to yield
    exists,        \* deploy_stack: the local of lines 59 and 61
    error,         \* deploy_stack: the ClientError that update_stack raised
    dcalls,        \* deploy.py: the calls made to S3 and CloudFormation, in order
    bucket,        \* S3: the deployment bucket
    stack          \* CloudFormation: whether the stack is there

vars == <<pc, event, job_name, crawler_name, table_prefix, waited, status, tables,
          table_name, qid, q, state, ret, log, ncalls, lastCall, sleeps,
          crawler, executions,
          dpc, source_no, lambda_versions, files, exists, error, dcalls, bucket, stack>>

\* the variables of deploy.py, and those of the handler
deploy == <<dpc, source_no, lambda_versions, files, exists, error, dcalls, bucket, stack>>

handler == <<pc, event, job_name, crawler_name, table_prefix, waited, status, tables,
             table_name, qid, q, state, ret, log, ncalls, lastCall, sleeps,
             crawler, executions>>

locals == <<job_name, crawler_name, table_prefix, waited, status, tables,
            table_name, qid, q, state>>

-----------------------------------------------------------------------------
(* Bounds of the model *)

MaxParts == 3         \* job names of the classification check: at most this many fragments
MaxTables == 2        \* a catalog listing has at most this many entries
MaxQueryPolls == 2    \* the count of query samples saturates here (the loop itself is unbounded)
MaxScripts == 2       \* glu_jobs holds at most this many files
MaxOldVersions == 1   \* an archive has at most this many versions before deploy.py runs

-----------------------------------------------------------------------------
(* Python values *)

None == "None"

\* a name that is not bound yet, a name bound to v, and the value a name is bound to
Unbound == <<>>
Bound(v) == <<v>>
Val(x) == x[1]

EmptyDict == [k \in {} |-> None]

\* dict.get(key, default)
Get(d, key, default) == IF key \in DOMAIN d THEN d[key] ELSE default

\* `sub in s` for str: sub occurs in s as a contiguous, case-sensitive substring
Contains(s, sub) ==
    \E k \in 0..(Len(s) - Len(sub)) :
        \A j \in 1..Len(sub) : s[k + j] = sub[j]

\* the catalog's Expression f"{table_prefix}*": the name starts with the prefix
MatchesPrefix(name, prefix) ==
    /\ Len(name) >= Len(prefix)
    /\ \A j \in 1..Len(prefix) : name[j] = prefix[j]

RECURSIVE Concat(_)
Concat(parts) == IF parts = <<>> THEN <<>> ELSE Head(parts) \o Concat(Tail(parts))

-----------------------------------------------------------------------------
(* Literals of the handler *)

txt == <<"t", "x", "t">>
csv == <<"c", "s", "v">>
json == <<"j", "s", "o", "n">>
underscore == <<"_">>
unknown == <<"u", "n", "k", "n", "o", "w", "n">>
select_from == <<"S", "E", "L", "E", "C", "T", " ", "*", " ", "F", "R", "O", "M", " ">>

\* environment of the function (os.environ)
TXT_CRAWLER == "TXT_CRAWLER"
CSV_CRAWLER == "CSV_CRAWLER"
JSON_CRAWLER == "JSON_CRAWLER"
GLUE_DATABASE == "GLUE_DATABASE"
ATHENA_OUTPUT_BUCKET == "ATHENA_OUTPUT_BUCKET"

Crawlers == {TXT_CRAWLER, CSV_CRAWLER, JSON_CRAWLER}

max_wait_seconds == 90
sleep_seconds == 5

CrawlerStates == {"READY", "STARTING", "RUNNING", "STOPPING"}
CrawlerDone == {"READY", "STOPPING"}

QueryStates == {"QUEUED", "RUNNING", "SUCCEEDED", "FAILED", "CANCELLED"}
QueryDone == {"SUCCEEDED", "FAILED", "CANCELLED"}

\* warnings and errors of the handler
NoCrawlerFound == "No crawler found for job name"
CrawlerNotReady == "Crawler did not reach READY in time, continuing anyway."
NoTablesFound == "No tables found with prefix"
QueryNotSucceeded == "Athena query did NOT succeed"

-----------------------------------------------------------------------------
(* Inputs *)

Invocations == {"inv1", "inv2"}

ServiceOps == {"start_crawler", "get_crawler", "get_tables",
               "start_query_execution", "get_query_execution"}

\* job names of whole runs of the handler
ingest_csv_001 == <<"i", "n", "g", "e", "s", "t", "-", "c", "s", "v", "-", "0", "0", "1">>
cleanup_job == <<"c", "l", "e", "a", "n", "u", "p", "-", "j", "o", "b">>
txt_to_csv == <<"t", "x", "t", "-", "t", "o", "-", "c", "s", "v">>
json_load == <<"j", "s", "o", "n", "-", "l", "o", "a", "d">>
upper_csv == <<"C", "S", "V", "-", "J", "s", "o", "n">>

WorkflowJobNames == {ingest_csv_001, cleanup_job, txt_to_csv, json_load, upper_csv}

\* an event carries a detail with a jobName, a detail without one, or no detail
EventsOf(names) ==
    {[detail |-> [jobName |-> n]] : n \in names}
        \cup {[detail |-> EmptyDict], EmptyDict}

WorkflowEvents == EventsOf(WorkflowJobNames)

\* job names of the classification check: up to MaxParts fragments, joined
Fragments == {txt, csv, json, <<"T", "X", "T">>, <<"c", "s">>, <<"v">>, <<"t", "x">>, <<"-">>}

FragmentSeqs == UNION {[1..n -> Fragments] : n \in 0..MaxParts}

ClassifyJobNames == {Concat(p) : p \in FragmentSeqs}

ClassifyEvents == EventsOf(ClassifyJobNames)

\* names of the tables of the catalog
csv_raw == <<"c", "s", "v", "_", "r", "a", "w">>
csv_old == <<"c", "s", "v", "_", "o", "l", "d">>
csvdata == <<"c", "s", "v", "d", "a", "t", "a">>
txt_raw == <<"t", "x", "t", "_", "r", "a", "w">>
json_raw == <<"j", "s", "o", "n", "_", "r", "a", "w">>

TableNames == {csv_raw, csv_old, csvdata, txt_raw, json_raw}

\* orderings of at most MaxTables distinct tables
Listings ==
    {l \in UNION {[1..n -> TableNames] : n \in 0..MaxTables} :
        \A a, b \in DOMAIN l : a # b => l[a] # l[b]}

Reasons == {"Syntax error"}

-----------------------------------------------------------------------------
(* The services, as the handler sees them *)

\* glue.get_tables(DatabaseName, Expression): the entries of the listing that
\* match the expression, in the order of the listing
GetTablesResponse(listing, expression_prefix) ==
    [TableList |->
        [k \in DOMAIN SelectSeq(listing, LAMBDA n : MatchesPrefix(n, expression_prefix)) |->
            [Name |-> SelectSeq(listing, LAMBDA n : MatchesPrefix(n, expression_prefix))[k]]]]

\* the Status of a query execution that has ended
EndedStatuses ==
    {[State |-> s] : s \in {"SUCCEEDED", "FAILED", "CANCELLED"}}
        \cup {[State |-> s, StateChangeReason |-> r] :
                s \in {"SUCCEEDED", "FAILED", "CANCELLED"}, r \in Reasons}

-----------------------------------------------------------------------------
(* lambda_handler *)

NoCalls == [op \in ServiceOps |-> 0]

Called(i, op) ==
    /\ ncalls' = [ncalls EXCEPT ![i][op] =
                    IF op = "get_query_execution" /\ @ >= MaxQueryPolls THEN @ ELSE @ + 1]
    /\ lastCall' = [lastCall EXCEPT ![i] = op]

LogEntry(level, msg, args) == [level |-> level, msg |-> msg, args |-> args]

\* a variant of lines 22-34 whose last branch falls back to the csv crawler
Classification_DefaultCsv(name) ==
    IF Contains(name, txt)
        THEN [found |-> TRUE, crawler_name |-> TXT_CRAWLER, table_prefix |-> txt \o underscore]
    ELSE IF Contains(name, json)
        THEN [found |-> TRUE, crawler_name |-> JSON_CRAWLER, table_prefix |-> json \o underscore]
    ELSE [found |-> TRUE, crawler_name |-> CSV_CRAWLER, table_prefix |-> csv \o underscore]

\* a variant of lines 22-34 that tests for csv before txt
Classification_CsvFirst(name) ==
    IF Contains(name, csv)
        THEN [found |-> TRUE, crawler_name |-> CSV_CRAWLER, table_prefix |-> csv \o underscore]
    ELSE IF Contains(name, txt)
        THEN [found |-> TRUE, crawler_name |-> TXT_CRAWLER, table_prefix |-> txt \o underscore]
    ELSE IF Contains(name, json)
        THEN [found |-> TRUE, crawler_name |-> JSON_CRAWLER, table_prefix |-> json \o underscore]
    ELSE [found |-> FALSE, crawler_name |-> None, table_prefix |-> None]

\* lines 22-34: the crawler and the table prefix of a job name, if it has a marker
Classification(name) ==
    IF Contains(name, txt)
        THEN [found |-> TRUE, crawler_name |-> TXT_CRAWLER, table_prefix |-> txt \o underscore]
    ELSE IF Contains(name, csv)
        THEN [found |-> TRUE, crawler_name |-> CSV_CRAWLER, table_prefix |-> csv \o underscore]
    ELSE IF Contains(name, json)
        THEN [found |-> TRUE, crawler_name |-> JSON_CRAWLER, table_prefix |-> json \o underscore]
    ELSE [found |-> FALSE, crawler_name |-> None, table_prefix |-> None]

\* a variant of line 47 that waits for READY alone
CrawlerFinished_ReadyOnly(st) == st = "READY"

\* line 47: the crawler wait ends on this state
CrawlerFinished(st) == st \in {"READY", "STOPPING"}

\* a variant of line 54 with > for >=
WaitedLongEnough_Strict(w) == w > max_wait_seconds

\* line 54: the crawler wait has lasted long enough
WaitedLongEnough(w) == w >= max_wait_seconds

\* line 65
NoTables(t) == Len(t) = 0

\* line 69
\* a variant of line 70 that takes the last table of the listing
FirstTable_Last(t) == t[Len(t)]["Name"]

FirstTable(t) == t[1]["Name"]

\* a variant of line 93 that leaves the loop on SUCCEEDED alone
QueryFinished_SucceededOnly(st) == st = "SUCCEEDED"

\* a variant of line 93 that takes every state but QUEUED as final
QueryFinished_NotQueued(st) == st # "QUEUED"

\* line 93: the query wait ends on this state
QueryFinished(st) == st \in {"SUCCEEDED", "FAILED", "CANCELLED"}

\* a variant of line 98 that tests for FAILED only
QueryFailed_OnlyFailed(st) == st = "FAILED"

\* line 98
QueryFailed(st) == st # "SUCCEEDED"

\* a variant of lines 18-19 whose default job name holds a marker
JobNameOf_DefaultJson(e) == Get(Get(e, "detail", EmptyDict), "jobName", json)

\* lines 18-19
JobNameOf(e) == Get(Get(e, "detail", EmptyDict), "jobName", unknown)

\* deploy.py is not run
NotDeploying ==
    /\ dpc = "idle"
    /\ source_no = 0
    /\ lambda_versions = EmptyDict
    /\ files = <<>>
    /\ exists = Unbound
    /\ error = Unbound
    /\ dcalls = <<>>
    /\ bucket = [exists |-> FALSE, versioning |-> FALSE, objects |-> EmptyDict]
    /\ stack = "absent"

Init ==
    /\ pc = [i \in Invocations |-> "idle"]
    /\ event = [i \in Invocations |-> Unbound]
    /\ job_name = [i \in Invocations |-> Unbound]
    /\ crawler_name = [i \in Invocations |-> Unbound]
    /\ table_prefix = [i \in Invocations |-> Unbound]
    /\ waited = [i \in Invocations |-> Unbound]
    /\ status = [i \in Invocations |-> Unbound]
    /\ tables = [i \in Invocations |-> Unbound]
    /\ table_name = [i \in Invocations |-> Unbound]
    /\ qid = [i \in Invocations |-> Unbound]
    /\ q = [i \in Invocations |-> Unbound]
    /\ state = [i \in Invocations |-> Unbound]
    /\ ret = [i \in Invocations |-> Unbound]
    /\ log = [i \in Invocations |-> <<>>]
    /\ ncalls = [i \in Invocations |-> NoCalls]
    /\ lastCall = [i \in Invocations |-> None]
    /\ sleeps = [i \in Invocations |-> 0]
    /\ crawler = [n \in Crawlers |-> "READY"]
    /\ executions = <<>>
    /\ NotDeploying

\* the trigger invokes the handler with event e
Invoke(i, e) ==
    /\ pc[i] = "idle"
    /\ event' = [event EXCEPT ![i] = Bound(e)]
    /\ pc' = [pc EXCEPT ![i] = "classify"]
    /\ UNCHANGED <<locals, ret, log, ncalls, lastCall, sleeps, crawler, executions>>
    /\ UNCHANGED deploy

\* lines 18-34
Classify(i) ==
    /\ pc[i] = "classify"
    /\ job_name' = [job_name EXCEPT ![i] = Bound(JobNameOf(Val(event[i])))]
    /\ IF ~Classification(Val(job_name'[i])).found
         THEN /\ log' = [log EXCEPT ![i] = Append(@, LogEntry("WARNING", NoCrawlerFound, <<Val(job_name'[i])>>))]
              /\ ret' = [ret EXCEPT ![i] = Bound(FALSE)]
              /\ pc' = [pc EXCEPT ![i] = "done"]
              /\ UNCHANGED <<crawler_name, table_prefix>>
         ELSE /\ crawler_name' = [crawler_name EXCEPT ![i] = Bound(Classification(Val(job_name'[i])).crawler_name)]
              /\ table_prefix' = [table_prefix EXCEPT ![i] = Bound(Classification(Val(job_name'[i])).table_prefix)]
              /\ pc' = [pc EXCEPT ![i] = "start_crawler"]
              /\ UNCHANGED <<log, ret>>
    /\ UNCHANGED <<event, waited, status, tables, table_name, qid, q, state,
                   ncalls, lastCall, sleeps, crawler, executions>>
    /\ UNCHANGED deploy

\* the service starts a crawler that is READY; the start of a crawler in any
\* other state is answered with CrawlerRunningException
StartAccepted(st) == st = "READY"

\* lines 36-41; line 37 is in no try block, so that an exception of the call
\* ends the invocation: it raises instead of returning
StartCrawler(i) ==
    /\ pc[i] = "start_crawler"
    /\ Called(i, "start_crawler")
    /\ IF StartAccepted(crawler[Val(crawler_name[i])])
         THEN /\ crawler' = [crawler EXCEPT ![Val(crawler_name[i])] = "STARTING"]
              /\ waited' = [waited EXCEPT ![i] = Bound(0)]
              /\ pc' = [pc EXCEPT ![i] = "get_crawler"]
         ELSE /\ pc' = [pc EXCEPT ![i] = "raised"]
              /\ UNCHANGED <<crawler, waited>>
    /\ UNCHANGED <<event, job_name, crawler_name, table_prefix, status, tables, table_name,
                   qid, q, state, ret, log, sleeps, executions>>
    /\ UNCHANGED deploy

\* lines 44-49
GetCrawler(i) ==
    /\ pc[i] = "get_crawler"
    /\ Called(i, "get_crawler")
    /\ status' = [status EXCEPT ![i] = Bound(crawler[Val(crawler_name[i])])]
    /\ pc' = [pc EXCEPT ![i] = IF CrawlerFinished(Val(status'[i])) THEN "get_tables" ELSE "sleep"]
    /\ UNCHANGED <<event, job_name, crawler_name, table_prefix, waited, tables, table_name,
                   qid, q, state, ret, log, sleeps, crawler, executions>>
    /\ UNCHANGED deploy

\* a variant of lines 51-56 whose deadline ends the invocation
Sleep_HardDeadline(i) ==
    /\ pc[i] = "sleep"
    /\ sleeps' = [sleeps EXCEPT ![i] = @ + 1]
    /\ waited' = [waited EXCEPT ![i] = Bound(Val(@) + sleep_seconds)]
    /\ IF WaitedLongEnough(Val(waited'[i]))
         THEN /\ log' = [log EXCEPT ![i] = Append(@, LogEntry("WARNING", CrawlerNotReady, <<>>))]
              /\ ret' = [ret EXCEPT ![i] = Bound(FALSE)]
              /\ pc' = [pc EXCEPT ![i] = "done"]
         ELSE /\ pc' = [pc EXCEPT ![i] = "get_crawler"]
              /\ UNCHANGED <<log, ret>>
    /\ UNCHANGED <<event, job_name, crawler_name, table_prefix, status, tables, table_name,
                   qid, q, state, ncalls, lastCall, crawler, executions>>
    /\ UNCHANGED deploy

\* a variant of lines 51-56 whose counter is one module-level name
Sleep_SharedCounter(i) ==
    /\ pc[i] = "sleep"
    /\ sleeps' = [sleeps EXCEPT ![i] = @ + 1]
    /\ waited' = [j \in Invocations |-> Bound(Val(waited[i]) + sleep_seconds)]
    /\ IF WaitedLongEnough(Val(waited'[i]))
         THEN /\ log' = [log EXCEPT ![i] = Append(@, LogEntry("WARNING", CrawlerNotReady, <<>>))]
              /\ pc' = [pc EXCEPT ![i] = "get_tables"]
         ELSE /\ pc' = [pc EXCEPT ![i] = "get_crawler"]
              /\ UNCHANGED log
    /\ UNCHANGED <<event, job_name, crawler_name, table_prefix, status, tables, table_name,
                   qid, q, state, ret, ncalls, lastCall, crawler, executions>>
    /\ UNCHANGED deploy

\* a variant of lines 51-56 that samples once more when the deadline is reached
Sleep_SampleAtDeadline(i) ==
    /\ pc[i] = "sleep"
    /\ sleeps' = [sleeps EXCEPT ![i] = @ + 1]
    /\ waited' = [waited EXCEPT ![i] = Bound(Val(@) + sleep_seconds)]
    /\ pc' = [pc EXCEPT ![i] =
                IF Val(waited'[i]) > max_wait_seconds THEN "get_tables" ELSE "get_crawler"]
    /\ IF Val(waited'[i]) > max_wait_seconds
         THEN log' = [log EXCEPT ![i] = Append(@, LogEntry("WARNING", CrawlerNotReady, <<>>))]
         ELSE UNCHANGED log
    /\ UNCHANGED <<event, job_name, crawler_name, table_prefix, status, tables, table_name,
                   qid, q, state, ret, ncalls, lastCall, crawler, executions>>
    /\ UNCHANGED deploy

\* lines 51-56
Sleep(i) ==
    /\ pc[i] = "sleep"
    /\ sleeps' = [sleeps EXCEPT ![i] = @ + 1]
    /\ waited' = [waited EXCEPT ![i] = Bound(Val(@) + sleep_seconds)]
    /\ IF WaitedLongEnough(Val(waited'[i]))
         THEN /\ log' = [log EXCEPT ![i] = Append(@, LogEntry("WARNING", CrawlerNotReady, <<>>))]
              /\ pc' = [pc EXCEPT ![i] = "get_tables"]
         ELSE /\ pc' = [pc EXCEPT ![i] = "get_crawler"]
              /\ UNCHANGED log
    /\ UNCHANGED <<event, job_name, crawler_name, table_prefix, status, tables, table_name,
                   qid, q, state, ret, ncalls, lastCall, crawler, executions>>
    /\ UNCHANGED deploy

\* a variant of lines 58-70 that runs the crawler again after an empty listing
GetTables_Retry(i, listing) ==
    /\ pc[i] = "get_tables"
    /\ Called(i, "get_tables")
    /\ tables' = [tables EXCEPT ![i] =
                    Bound(Get(GetTablesResponse(listing, Val(table_prefix[i])), "TableList", <<>>))]
    /\ IF NoTables(Val(tables'[i]))
         THEN /\ log' = [log EXCEPT ![i] =
                           Append(@, LogEntry("WARNING", NoTablesFound, <<Val(table_prefix[i]), GLUE_DATABASE>>))]
              /\ pc' = [pc EXCEPT ![i] = "start_crawler"]
              /\ UNCHANGED table_name
         ELSE /\ table_name' = [table_name EXCEPT ![i] = Bound(FirstTable(Val(tables'[i])))]
              /\ pc' = [pc EXCEPT ![i] = "start_query_execution"]
              /\ UNCHANGED log
    /\ UNCHANGED <<event, job_name, crawler_name, table_prefix, waited, status,
                   qid, q, state, ret, sleeps, crawler, executions>>
    /\ UNCHANGED deploy

\* a variant of lines 58-70 that warns about an empty listing and goes on
GetTables_NoReturn(i, listing) ==
    /\ pc[i] = "get_tables"
    /\ Called(i, "get_tables")
    /\ tables' = [tables EXCEPT ![i] =
                    Bound(Get(GetTablesResponse(listing, Val(table_prefix[i])), "TableList", <<>>))]
    /\ IF NoTables(Val(tables'[i]))
         THEN /\ log' = [log EXCEPT ![i] =
                           Append(@, LogEntry("WARNING", NoTablesFound, <<Val(table_prefix[i]), GLUE_DATABASE>>))]
              /\ table_name' = [table_name EXCEPT ![i] = Bound(<<>>)]
         ELSE /\ table_name' = [table_name EXCEPT ![i] = Bound(FirstTable(Val(tables'[i])))]
              /\ UNCHANGED log
    /\ pc' = [pc EXCEPT ![i] = "start_query_execution"]
    /\ UNCHANGED <<event, job_name, crawler_name, table_prefix, waited, status,
                   qid, q, state, ret, sleeps, crawler, executions>>
    /\ UNCHANGED deploy

\* lines 58-70; listing is what the catalog holds when it is asked
GetTables(i, listing) ==
    /\ pc[i] = "get_tables"
    /\ Called(i, "get_tables")
    /\ tables' = [tables EXCEPT ![i] =
                    Bound(Get(GetTablesResponse(listing, Val(table_prefix[i])), "TableList", <<>>))]
    /\ IF NoTables(Val(tables'[i]))
         THEN /\ log' = [log EXCEPT ![i] =
                           Append(@, LogEntry("WARNING", NoTablesFound, <<Val(table_prefix[i]), GLUE_DATABASE>>))]
              /\ ret' = [ret EXCEPT ![i] = Bound(FALSE)]
              /\ pc' = [pc EXCEPT ![i] = "done"]
              /\ UNCHANGED table_name
         ELSE /\ table_name' = [table_name EXCEPT ![i] = Bound(FirstTable(Val(tables'[i])))]
              /\ pc' = [pc EXCEPT ![i] = "start_query_execution"]
              /\ UNCHANGED <<log, ret>>
    /\ UNCHANGED <<event, job_name, crawler_name, table_prefix, waited, status,
                   qid, q, state, sleeps, crawler, executions>>
    /\ UNCHANGED deploy

\* lines 72-85; the service queues the execution and returns its id
StartQueryExecution(i) ==
    /\ pc[i] = "start_query_execution"
    /\ Called(i, "start_query_execution")
    /\ executions' = Append(executions,
            [QueryString |-> select_from \o Val(table_name[i]),
             Database |-> GLUE_DATABASE,
             OutputLocation |-> <<"s3://", ATHENA_OUTPUT_BUCKET, "/results/">>,
             Status |-> [State |-> "QUEUED"]])
    /\ qid' = [qid EXCEPT ![i] = Bound(Len(executions'))]
    /\ pc' = [pc EXCEPT ![i] = "get_query_execution"]
    /\ UNCHANGED <<event, job_name, crawler_name, table_prefix, waited, status, tables,
                   table_name, q, state, ret, log, sleeps, crawler>>
    /\ UNCHANGED deploy

\* a variant of line 99 that does not read the status
Reason_Unknown(response) == "Unknown"

\* line 99
Reason(response) == Get(response["QueryExecution"]["Status"], "StateChangeReason", "Unknown")

\* lines 89-94 and, when the loop is left, lines 98-104
GetQueryExecution(i) ==
    /\ pc[i] = "get_query_execution"
    /\ Called(i, "get_query_execution")
    /\ q' = [q EXCEPT ![i] = Bound([QueryExecution |-> executions[Val(qid[i])]])]
    /\ state' = [state EXCEPT ![i] = Bound(Val(q'[i])["QueryExecution"]["Status"]["State"])]
    /\ IF QueryFinished(Val(state'[i]))
         THEN /\ pc' = [pc EXCEPT ![i] = "done"]
              /\ IF QueryFailed(Val(state'[i]))
                   THEN /\ log' = [log EXCEPT ![i] = Append(@,
                                LogEntry("ERROR", QueryNotSucceeded,
                                    <<Val(state'[i]), Reason(Val(q'[i]))>>))]
                        /\ ret' = [ret EXCEPT ![i] = Bound(FALSE)]
                   ELSE /\ ret' = [ret EXCEPT ![i] = Bound(TRUE)]
                        /\ UNCHANGED log
         ELSE /\ pc' = [pc EXCEPT ![i] = "query_sleep"]
              /\ UNCHANGED <<log, ret>>
    /\ UNCHANGED <<event, job_name, crawler_name, table_prefix, waited, status, tables,
                   table_name, qid, sleeps, crawler, executions>>
    /\ UNCHANGED deploy

\* line 96
QuerySleep(i) ==
    /\ pc[i] = "query_sleep"
    /\ pc' = [pc EXCEPT ![i] = "get_query_execution"]
    /\ UNCHANGED <<event, locals, ret, log, ncalls, lastCall, sleeps, crawler, executions>>
    /\ UNCHANGED deploy

-----------------------------------------------------------------------------
(* The services' own progress *)

\* a crawler some invocation is starting or waiting for changes state
CrawlerChange(n, s) ==
    /\ \E i \in Invocations :
          /\ pc[i] \in {"start_crawler", "get_crawler", "sleep"}
          /\ Val(crawler_name[i]) = n
    /\ s # crawler[n]
    /\ crawler' = [crawler EXCEPT ![n] = s]
    /\ UNCHANGED <<pc, event, locals, ret, log, ncalls, lastCall, sleeps, executions>>
    /\ UNCHANGED deploy

\* a queued execution starts to run
QueryRuns(k) ==
    /\ executions[k].Status.State = "QUEUED"
    /\ executions' = [executions EXCEPT ![k].Status = [State |-> "RUNNING"]]
    /\ UNCHANGED <<pc, event, locals, ret, log, ncalls, lastCall, sleeps, crawler>>
    /\ UNCHANGED deploy

\* an execution that has not ended ends, with status st
QueryEnds(k, st) ==
    /\ executions[k].Status.State \in {"QUEUED", "RUNNING"}
    /\ executions' = [executions EXCEPT ![k].Status = st]
    /\ UNCHANGED <<pc, event, locals, ret, log, ncalls, lastCall, sleeps, crawler>>
    /\ UNCHANGED deploy

-----------------------------------------------------------------------------
(* deploy.py: ensure_bucket, zip_lambda, upload_and_get_version and main *)

STACK_NAME == "assignment-3-data-pipeline"

zip == ".zip"

\* lines 109-114, in the order of the dict: a zip_name is the name and ".zip"
lambda_sources ==
    <<[src_folder |-> "lambdas/SaveS3Config", zip_name |-> <<"SaveS3Config", zip>>],
      [src_folder |-> "lambdas/TriggerGlueJob", zip_name |-> <<"TriggerGlueJob", zip>>],
      [src_folder |-> "lambdas/LambdaGlueJobSuccess", zip_name |-> <<"LambdaGlueJobSuccess", zip>>],
      [src_folder |-> "lambdas/LambdaGlueJobFailure", zip_name |-> <<"LambdaGlueJobFailure", zip>>]>>

\* zip_name.replace(".zip", "") of line 125
WithoutZip(zip_name) == SelectSeq(zip_name, LAMBDA part : part # zip)

\* line 122 and line 131
LambdaKey(zip_name) == <<"lambdas/">> \o zip_name

ScriptKey(f) == <<"scripts/", f>>

\* the files that glu_jobs may hold
ScriptFiles == <<"csv_job.py", "json_job.py", "txt_job.py">>

LambdaKeys == {LambdaKey(lambda_sources[k].zip_name) : k \in DOMAIN lambda_sources}

Keys == LambdaKeys \cup {ScriptKey(ScriptFiles[k]) : k \in DOMAIN ScriptFiles}

\* the keys that the parameters of lines 141-144 read from lambda_versions
VersionParams ==
    {<<"SaveS3Config">>, <<"TriggerGlueJob">>, <<"LambdaGlueJobSuccess">>, <<"LambdaGlueJobFailure">>}

\* a call of an S3 or CloudFormation operation, and whether it raised
Call(op, key, raised) == [op |-> op, key |-> key, raised |-> raised]

\* S3: the bucket holds, for each key, a number of versions; an upload adds a
\* version when versioning is enabled and replaces the only one when it is not
NullVersion == 0

Upload(b, key) ==
    [b EXCEPT !.objects[key] = IF b.versioning THEN @ + 1 ELSE 1]

\* S3: the VersionId of the latest version of the object at key
VersionId(b, key) == IF b.versioning THEN b.objects[key] ELSE NullVersion

\* S3: head_bucket raises ClientError for a bucket that is not there
HeadBucketRaises(b) == ~b.exists

\* lines 28-31 of ensure_bucket, called from line 107
HeadBucket ==
    /\ dpc = "head_bucket"
    /\ dcalls' = Append(dcalls, Call("head_bucket", <<>>, HeadBucketRaises(bucket)))
    /\ dpc' = IF HeadBucketRaises(bucket) THEN "create_bucket" ELSE "put_bucket_versioning"
    /\ UNCHANGED <<source_no, lambda_versions, files, exists, error, bucket, stack>>
    /\ UNCHANGED handler

\* a variant of lines 32-37 that returns from ensure_bucket
CreateBucket_NoVersioning ==
    /\ dpc = "create_bucket"
    /\ dcalls' = Append(dcalls, Call("create_bucket", <<>>, FALSE))
    /\ bucket' = [bucket EXCEPT !.exists = TRUE]
    /\ dpc' = "zip_lambda"
    /\ UNCHANGED <<source_no, lambda_versions, files, exists, error, stack>>
    /\ UNCHANGED handler

\* lines 32-37
CreateBucket ==
    /\ dpc = "create_bucket"
    /\ dcalls' = Append(dcalls, Call("create_bucket", <<>>, FALSE))
    /\ bucket' = [bucket EXCEPT !.exists = TRUE]
    /\ dpc' = "put_bucket_versioning"
    /\ UNCHANGED <<source_no, lambda_versions, files, exists, error, stack>>
    /\ UNCHANGED handler

\* lines 39-43; ensure_bucket returns to line 109
PutBucketVersioning ==
    /\ dpc = "put_bucket_versioning"
    /\ dcalls' = Append(dcalls, Call("put_bucket_versioning", <<>>, FALSE))
    /\ bucket' = [bucket EXCEPT !.versioning = TRUE]
    /\ dpc' = "zip_lambda"
    /\ UNCHANGED <<source_no, lambda_versions, files, exists, error, stack>>
    /\ UNCHANGED handler

\* lines 118-122: the next entry of lambda_sources is zipped
ZipLambda ==
    /\ dpc = "zip_lambda"
    /\ dpc' = "upload_file"
    /\ UNCHANGED <<source_no, lambda_versions, files, exists, error, dcalls, bucket, stack>>
    /\ UNCHANGED handler

\* lines 46-47 of upload_and_get_version, called from line 123; an upload to a
\* bucket that is not there raises
UploadFile ==
    /\ dpc = "upload_file"
    /\ dcalls' = Append(dcalls,
            Call("upload_file", LambdaKey(lambda_sources[source_no + 1].zip_name), ~bucket.exists))
    /\ IF bucket.exists
         THEN /\ bucket' = Upload(bucket, LambdaKey(lambda_sources[source_no + 1].zip_name))
              /\ dpc' = "head_object"
         ELSE /\ dpc' = "raised"
              /\ UNCHANGED bucket
    /\ UNCHANGED <<source_no, lambda_versions, files, exists, error, stack>>
    /\ UNCHANGED handler

\* lines 49-53 and line 125; then the loop of line 118 goes on or is left
HeadObject ==
    /\ dpc = "head_object"
    /\ dcalls' = Append(dcalls,
            Call("head_object", LambdaKey(lambda_sources[source_no + 1].zip_name), FALSE))
    /\ lambda_versions' =
            (WithoutZip(lambda_sources[source_no + 1].zip_name) :>
                VersionId(bucket, LambdaKey(lambda_sources[source_no + 1].zip_name)))
                @@ lambda_versions
    /\ source_no' = source_no + 1
    /\ dpc' = IF source_no' < Len(lambda_sources) THEN "zip_lambda" ELSE "walk"
    /\ UNCHANGED <<files, exists, error, bucket, stack>>
    /\ UNCHANGED handler

\* lines 128-133: the next file of glu_jobs is uploaded
UploadScript ==
    /\ dpc = "walk"
    /\ files # <<>>
    /\ dcalls' = Append(dcalls, Call("upload_file", ScriptKey(Head(files)), FALSE))
    /\ bucket' = Upload(bucket, ScriptKey(Head(files)))
    /\ files' = Tail(files)
    /\ UNCHANGED <<dpc, source_no, lambda_versions, exists, error, stack>>
    /\ UNCHANGED handler

\* lines 135-147: the template is read and the parameters are built, each
\* version by its key in lambda_versions; then deploy_stack is called
BuildParams ==
    /\ dpc = "walk"
    /\ files = <<>>
    /\ dpc' = IF VersionParams \subseteq DOMAIN lambda_versions THEN "describe_stacks" ELSE "raised"
    /\ UNCHANGED <<source_no, lambda_versions, files, exists, error, dcalls, bucket, stack>>
    /\ UNCHANGED handler

-----------------------------------------------------------------------------
(* deploy.py: deploy_stack *)

\* the text of line 80
no_updates == <<"No updates are to be performed">>

\* str(e) of a ClientError of update_stack, in parts: the head that botocore
\* puts before the message of the service, the message, and the full stop
UpdateStackFailed == "An error occurred (ValidationError) when calling the UpdateStack operation: "

UpdateErrors ==
    {<<UpdateStackFailed>> \o no_updates \o <<".">>,
     <<UpdateStackFailed, "Stack is in UPDATE_IN_PROGRESS state and can not be updated", ".">>,
     <<UpdateStackFailed, "Template format error", ".">>}

\* a variant of line 80 that takes every ClientError for "no updates"
NothingToUpdate_Always(e) == TRUE

\* line 80
NothingToUpdate(e) == Contains(e, no_updates)

\* lines 57-63
DescribeStacks ==
    /\ dpc = "describe_stacks"
    /\ dcalls' = Append(dcalls, Call("describe_stacks", <<>>, stack = "absent"))
    /\ exists' = Bound(stack # "absent")
    /\ dpc' = IF Val(exists') THEN "update_stack" ELSE "create_stack"
    /\ UNCHANGED <<source_no, lambda_versions, files, error, bucket, stack>>
    /\ UNCHANGED handler

\* lines 64-74: the update is started
UpdateStack ==
    /\ dpc = "update_stack"
    /\ dcalls' = Append(dcalls, Call("update_stack", <<>>, FALSE))
    /\ dpc' = "update_wait"
    /\ UNCHANGED <<source_no, lambda_versions, files, exists, error, bucket, stack>>
    /\ UNCHANGED handler

\* lines 64-72 and 79-83: update_stack raises the ClientError e
UpdateStackRaises(e) ==
    /\ dpc = "update_stack"
    /\ dcalls' = Append(dcalls, Call("update_stack", <<>>, TRUE))
    /\ error' = Bound(e)
    /\ dpc' = IF NothingToUpdate(e) THEN "returned" ELSE "raised"
    /\ UNCHANGED <<source_no, lambda_versions, files, exists, bucket, stack>>
    /\ UNCHANGED handler

\* lines 75-78: the waiter returns, or raises WaiterError, which is no
\* ClientError and so passes line 79
UpdateWait(ok) ==
    /\ dpc = "update_wait"
    /\ dcalls' = Append(dcalls, Call("wait", <<>>, ~ok))
    /\ dpc' = IF ok THEN "returned" ELSE "raised"
    /\ UNCHANGED <<source_no, lambda_versions, files, exists, error, bucket, stack>>
    /\ UNCHANGED handler

\* lines 85-93
CreateStack ==
    /\ dpc = "create_stack"
    /\ dcalls' = Append(dcalls, Call("create_stack", <<>>, FALSE))
    /\ stack' = "present"
    /\ dpc' = "create_wait"
    /\ UNCHANGED <<source_no, lambda_versions, files, exists, error, bucket>>
    /\ UNCHANGED handler

\* lines 95-98
CreateWait(ok) ==
    /\ dpc = "create_wait"
    /\ dcalls' = Append(dcalls, Call("wait", <<>>, ~ok))
    /\ dpc' = IF ok THEN "returned" ELSE "raised"
    /\ UNCHANGED <<source_no, lambda_versions, files, exists, error, bucket, stack>>
    /\ UNCHANGED handler

-----------------------------------------------------------------------------
(* Specifications *)

Handler(i) ==
    \/ Classify(i)
    \/ StartCrawler(i)
    \/ GetCrawler(i)
    \/ Sleep(i)
    \/ \E listing \in Listings : GetTables(i, listing)
    \/ StartQueryExecution(i)
    \/ GetQueryExecution(i)
    \/ QuerySleep(i)

Services ==
    \/ \E n \in Crawlers, s \in CrawlerStates : CrawlerChange(n, s)
    \/ \E k \in DOMAIN executions : QueryRuns(k)
    \/ \E k \in DOMAIN executions, st \in EndedStatuses : QueryEnds(k, st)

\* one invocation, from the trigger to its return
Next ==
    \/ \E e \in WorkflowEvents : Invoke("inv1", e)
    \/ Handler("inv1")
    \/ Services

Spec == Init /\ [][Next]_vars

\* the statements of an invocation are executed one after the other, and the
\* sleeps return: the handler takes its next step as long as it has one
\* (every step of the handler changes pc)
SpecFair == Init /\ [][Next]_vars /\ WF_pc(Handler("inv1"))

\* the classification alone, over the generated job names
NextClassify ==
    \/ \E e \in ClassifyEvents : Invoke("inv1", e)
    \/ Classify("inv1")

SpecClassify == Init /\ [][NextClassify]_vars

\* two invocations at the same time, for the same crawler or for two crawlers,
\* with the crawlers in any state when the first event arrives; here a crawler
\* changes state only when it is started
ConcurrentEvents == {[detail |-> [jobName |-> n]] : n \in {ingest_csv_001, json_load}}

\* what the catalog lists and how a query ends, while two invocations run
ConcurrentListings == {<<>>, <<csv_raw, json_raw>>}

ConcurrentStatuses ==
    {[State |-> "SUCCEEDED"]}
        \cup {[State |-> "FAILED", StateChangeReason |-> r] : r \in Reasons}

\* "inv1" names the invocation whose event arrives first
Arrives(i) == i = "inv1" \/ pc["inv1"] # "idle"

InitConcurrent ==
    /\ pc = [i \in Invocations |-> "idle"]
    /\ event = [i \in Invocations |-> Unbound]
    /\ job_name = [i \in Invocations |-> Unbound]
    /\ crawler_name = [i \in Invocations |-> Unbound]
    /\ table_prefix = [i \in Invocations |-> Unbound]
    /\ waited = [i \in Invocations |-> Unbound]
    /\ status = [i \in Invocations |-> Unbound]
    /\ tables = [i \in Invocations |-> Unbound]
    /\ table_name = [i \in Invocations |-> Unbound]
    /\ qid = [i \in Invocations |-> Unbound]
    /\ q = [i \in Invocations |-> Unbound]
    /\ state = [i \in Invocations |-> Unbound]
    /\ ret = [i \in Invocations |-> Unbound]
    /\ log = [i \in Invocations |-> <<>>]
    /\ ncalls = [i \in Invocations |-> NoCalls]
    /\ lastCall = [i \in Invocations |-> None]
    /\ sleeps = [i \in Invocations |-> 0]
    /\ \E s \in CrawlerStates : crawler = [n \in Crawlers |-> s]
    /\ executions = <<>>
    /\ NotDeploying

NextConcurrent ==
    \/ \E i \in Invocations, e \in ConcurrentEvents : Arrives(i) /\ Invoke(i, e)
    \/ \E i \in Invocations : Classify(i)
    \/ \E i \in Invocations : StartCrawler(i)
    \/ \E i \in Invocations : GetCrawler(i)
    \/ \E i \in Invocations : Sleep(i)
    \/ \E i \in Invocations, listing \in ConcurrentListings : GetTables(i, listing)
    \/ \E i \in Invocations : StartQueryExecution(i)
    \/ \E i \in Invocations : GetQueryExecution(i)
    \/ \E i \in Invocations : QuerySleep(i)
    \/ \E k \in DOMAIN executions, st \in ConcurrentStatuses : QueryEnds(k, st)

SpecConcurrent == InitConcurrent /\ [][NextConcurrent]_vars

\* the deployment bucket before deploy.py runs: not there, or there with
\* versioning on or off and with earlier versions of the archives
Buckets ==
    {[exists |-> FALSE, versioning |-> FALSE, objects |-> [k \in Keys |-> 0]]}
        \cup {[exists |-> TRUE, versioning |-> v,
               objects |-> [k \in Keys |-> IF k \in LambdaKeys THEN o[k] ELSE 0]] :
                 v \in BOOLEAN, o \in [LambdaKeys -> 0..MaxOldVersions]}

\* one run of deploy.py, from line 102
InitDeploy ==
    /\ pc = [i \in Invocations |-> "idle"]
    /\ event = [i \in Invocations |-> Unbound]
    /\ job_name = [i \in Invocations |-> Unbound]
    /\ crawler_name = [i \in Invocations |-> Unbound]
    /\ table_prefix = [i \in Invocations |-> Unbound]
    /\ waited = [i \in Invocations |-> Unbound]
    /\ status = [i \in Invocations |-> Unbound]
    /\ tables = [i \in Invocations |-> Unbound]
    /\ table_name = [i \in Invocations |-> Unbound]
    /\ qid = [i \in Invocations |-> Unbound]
    /\ q = [i \in Invocations |-> Unbound]
    /\ state = [i \in Invocations |-> Unbound]
    /\ ret = [i \in Invocations |-> Unbound]
    /\ log = [i \in Invocations |-> <<>>]
    /\ ncalls = [i \in Invocations |-> NoCalls]
    /\ lastCall = [i \in Invocations |-> None]
    /\ sleeps = [i \in Invocations |-> 0]
    /\ crawler = [n \in Crawlers |-> "READY"]
    /\ executions = <<>>
    /\ dpc = "head_bucket"
    /\ source_no = 0
    /\ lambda_versions = EmptyDict
    /\ \E n \in 0..MaxScripts : files = SubSeq(ScriptFiles, 1, n)
    /\ exists = Unbound
    /\ error = Unbound
    /\ dcalls = <<>>
    /\ bucket \in Buckets
    /\ stack \in {"absent", "present"}

NextDeploy ==
    \/ HeadBucket
    \/ CreateBucket
    \/ PutBucketVersioning
    \/ ZipLambda
    \/ UploadFile
    \/ HeadObject
    \/ UploadScript
    \/ BuildParams
    \/ DescribeStacks
    \/ UpdateStack
    \/ \E e \in UpdateErrors : UpdateStackRaises(e)
    \/ \E ok \in BOOLEAN : UpdateWait(ok)
    \/ CreateStack
    \/ \E ok \in BOOLEAN : CreateWait(ok)

SpecDeploy == InitDeploy /\ [][NextDeploy]_vars

-----------------------------------------------------------------------------
(* Properties *)

Returned(i) == pc[i] = "done"

Raised(i) == pc[i] = "raised"

Ended(i) == Returned(i) \/ Raised(i)

Classified(i) == pc[i] \notin {"idle", "classify"}

Made(i, op) == ncalls[i][op]

Submitted(i) == Made(i, "start_query_execution") = 1

Listed(i) == Made(i, "get_tables") = 1

Is(x, v) == x = Bound(v)

OneOf(x, S) == x # Unbound /\ Val(x) \in S

HasMarker(name) == Contains(name, txt) \/ Contains(name, csv) \/ Contains(name, json)

LastLogged(i, level, msg) ==
    /\ Len(log[i]) > 0
    /\ log[i][Len(log[i])].level = level
    /\ log[i][Len(log[i])].msg = msg

\* C1: an invocation that has returned has returned True if and only if it
\* submitted a query and the last state it sampled for it is SUCCEEDED; with
\* FAILED or CANCELLED sampled, with a job name without marker, and with an
\* empty catalog listing it has returned False.
C1_SuccessIffQuerySucceeded ==
    \A i \in Invocations :
        /\ ~Returned(i) => ret[i] = Unbound
        /\ Returned(i) =>
            /\ OneOf(ret[i], BOOLEAN)
            /\ Is(ret[i], TRUE) <=> (Submitted(i) /\ Is(state[i], "SUCCEEDED"))
            /\ OneOf(state[i], {"FAILED", "CANCELLED"}) => Is(ret[i], FALSE)
            /\ ~HasMarker(Val(job_name[i])) => Is(ret[i], FALSE)
            /\ (Listed(i) /\ Len(Val(tables[i])) = 0) => Is(ret[i], FALSE)

C1_Witness ==
    /\ Returned("inv1") /\ Is(ret["inv1"], TRUE)
    /\ Is(job_name["inv1"], ingest_csv_001)
    /\ Made("inv1", "get_crawler") = 1 /\ Is(status["inv1"], "READY")
    /\ Is(table_name["inv1"], csv_raw)
    /\ Made("inv1", "get_query_execution") = 1

\* C2: an invocation whose job name holds none of txt, csv, json has, once
\* classified, returned False with the warning that no crawler was found as
\* its only log entry, and has called no service operation.
C2_UnclassifiedFailsWithoutCalls ==
    \A i \in Invocations :
        (Classified(i) /\ ~HasMarker(Val(job_name[i]))) =>
            /\ Returned(i) /\ Is(ret[i], FALSE)
            /\ Len(log[i]) = 1 /\ LastLogged(i, "WARNING", NoCrawlerFound)
            /\ ncalls[i] = NoCalls /\ lastCall[i] = None
            /\ crawler = [n \in Crawlers |-> "READY"] /\ executions = <<>>

C2_Witness ==
    /\ Returned("inv1") /\ Is(ret["inv1"], FALSE)
    /\ Is(job_name["inv1"], cleanup_job)
    /\ ncalls["inv1"] = NoCalls

\* C3: classification takes the first of txt, csv, json (in this order) that
\* occurs in the job name, case-sensitively, and gives that type's crawler and
\* the marker followed by "_"; a job name with csv and without txt gets the
\* csv crawler and "csv_", whatever else it holds.
Markers == <<txt, csv, json>>

CrawlerOfMarker == <<TXT_CRAWLER, CSV_CRAWLER, JSON_CRAWLER>>

FirstMarker(name) ==
    CHOOSE k \in 1..3 :
        /\ Contains(name, Markers[k])
        /\ \A j \in 1..(k - 1) : ~Contains(name, Markers[j])

C3_FirstMarkerWins ==
    \A i \in Invocations :
        Classified(i) =>
            /\ HasMarker(Val(job_name[i])) =>
                /\ pc[i] # "done"
                /\ Is(crawler_name[i], CrawlerOfMarker[FirstMarker(Val(job_name[i]))])
                /\ Is(table_prefix[i], Markers[FirstMarker(Val(job_name[i]))] \o <<"_">>)
            /\ (Contains(Val(job_name[i]), csv) /\ ~Contains(Val(job_name[i]), txt)) =>
                /\ Is(crawler_name[i], CSV_CRAWLER)
                /\ Is(table_prefix[i], <<"c", "s", "v", "_">>)
            /\ ~HasMarker(Val(job_name[i])) =>
                /\ pc[i] = "done"
                /\ crawler_name[i] = Unbound /\ table_prefix[i] = Unbound

\* csv with json, and csv that only the joining of two fragments spells
C3_Witness ==
    /\ Classified("inv1")
    /\ Is(job_name["inv1"], json \o <<"c", "s">> \o <<"v">>)
    /\ Is(crawler_name["inv1"], CSV_CRAWLER)

\* C4: an invocation whose catalog listing came back empty has returned False
\* with the warning that no tables were found as its last log entry, and has
\* neither submitted nor sampled a query.
C4_EmptyListingFailsWithoutQuery ==
    \A i \in Invocations :
        (Listed(i) /\ Len(Val(tables[i])) = 0) =>
            /\ Returned(i) /\ Is(ret[i], FALSE)
            /\ LastLogged(i, "WARNING", NoTablesFound)
            /\ Made(i, "start_query_execution") = 0
            /\ Made(i, "get_query_execution") = 0
            /\ lastCall[i] = "get_tables"
            /\ qid[i] = Unbound
            /\ executions = <<>>

C4_Witness ==
    /\ Returned("inv1") /\ Listed("inv1") /\ Len(Val(tables["inv1"])) = 0
    /\ Is(job_name["inv1"], ingest_csv_001)

InCrawlerWait(i) == pc[i] \in {"get_crawler", "sleep"}

PastCrawlerWait(i) ==
    pc[i] \in {"get_tables", "start_query_execution", "get_query_execution", "query_sleep", "done"}
        /\ Made(i, "start_crawler") = 1

TimedOut(i) ==
    \E k \in DOMAIN log[i] : log[i][k] = LogEntry("WARNING", CrawlerNotReady, <<>>)

\* C5: the deadline of the crawler wait is soft. An invocation that has waited
\* max_wait_seconds last saw STARTING or RUNNING, has logged the warning, and
\* is at the catalog listing without a return value or has made the listing;
\* and no invocation with a crawler returns before it has listed the catalog.
C5_SoftDeadline ==
    \A i \in Invocations :
        /\ (waited[i] # Unbound /\ Val(waited[i]) >= max_wait_seconds) =>
            /\ OneOf(status[i], {"STARTING", "RUNNING"})
            /\ TimedOut(i)
            /\ (pc[i] = "get_tables" /\ ret[i] = Unbound) \/ Listed(i)
        /\ (Made(i, "start_crawler") = 1 /\ Returned(i)) => Listed(i)
        /\ (Classified(i) /\ HasMarker(Val(job_name[i])) /\ ~Listed(i)) => ret[i] = Unbound

C5_Witness ==
    /\ TimedOut("inv1") /\ Is(status["inv1"], "STARTING")
    /\ Returned("inv1") /\ Is(ret["inv1"], TRUE)

CeilDiv(a, b) == (a + b - 1) \div b

\* C6: a crawler wait in which no sample was READY or STOPPING ends after
\* exactly ceil(max_wait_seconds / 5) = 18 samples, with the deadline warning;
\* and the warning is logged in no other case.
C6_DeadlineAfter18Samples ==
    \A i \in Invocations :
        /\ CeilDiv(max_wait_seconds, sleep_seconds) = 18
        /\ (PastCrawlerWait(i) /\ ~OneOf(status[i], {"READY", "STOPPING"})) =>
            /\ Made(i, "get_crawler") = CeilDiv(max_wait_seconds, sleep_seconds)
            /\ TimedOut(i)
        /\ InCrawlerWait(i) =>
            /\ Made(i, "get_crawler") <= CeilDiv(max_wait_seconds, sleep_seconds)
            /\ ~TimedOut(i)
        /\ TimedOut(i) =>
            /\ Made(i, "get_crawler") = CeilDiv(max_wait_seconds, sleep_seconds)
            /\ OneOf(status[i], {"STARTING", "RUNNING"})

C6_Witness ==
    /\ pc["inv1"] = "get_tables" /\ TimedOut("inv1")
    /\ Made("inv1", "get_crawler") = 18
    /\ Is(status["inv1"], "RUNNING")

\* C7: a crawler wait whose k-th sample is the first READY or STOPPING one ends
\* with that sample: the invocation has then slept k - 1 times (not at all for
\* k = 1), k is at most 18, and no deadline warning is logged.
C7_EndsWithFirstFinishedSample ==
    \A i \in Invocations :
        /\ OneOf(status[i], {"READY", "STOPPING"}) =>
            /\ PastCrawlerWait(i)
            /\ sleeps[i] = Made(i, "get_crawler") - 1
            /\ Val(waited[i]) = sleep_seconds * (Made(i, "get_crawler") - 1)
            /\ Made(i, "get_crawler") <= 18
            /\ ~TimedOut(i)
            /\ Made(i, "get_crawler") = 1 => sleeps[i] = 0 /\ Val(waited[i]) = 0
        /\ pc[i] = "sleep" =>
            /\ OneOf(status[i], {"STARTING", "RUNNING"})
            /\ sleeps[i] = Made(i, "get_crawler") - 1

C7_Witness ==
    /\ pc["inv1"] = "get_tables" /\ Is(status["inv1"], "STOPPING")
    /\ Made("inv1", "get_crawler") = 18 /\ sleeps["inv1"] = 17
    /\ ~TimedOut("inv1")

\* C8: after its query is submitted an invocation goes on sampling as long as
\* every sample is QUEUED or RUNNING, however many samples that takes, and it
\* has returned only with SUCCEEDED, FAILED or CANCELLED as its last sample.
C8_QueryWaitEndsOnlyWhenFinished ==
    \A i \in Invocations :
        Submitted(i) =>
            /\ Returned(i) => OneOf(state[i], {"SUCCEEDED", "FAILED", "CANCELLED"})
            /\ OneOf(state[i], {"QUEUED", "RUNNING"}) => pc[i] \in {"query_sleep", "get_query_execution"}
            /\ pc[i] = "query_sleep" =>
                /\ OneOf(state[i], {"QUEUED", "RUNNING"})
                /\ ENABLED QuerySleep(i)
            /\ pc[i] = "get_query_execution" =>
                /\ state[i] = Unbound \/ OneOf(state[i], {"QUEUED", "RUNNING"})
                /\ ENABLED GetQueryExecution(i)

C8_Witness ==
    /\ Returned("inv1") /\ Is(state["inv1"], "CANCELLED")
    /\ Made("inv1", "get_query_execution") = MaxQueryPolls
    /\ Val(q["inv1"])["QueryExecution"]["Status"] = [State |-> "CANCELLED"]

InQueryWait(i) == pc[i] \in {"get_query_execution", "query_sleep"}

\* the query an invocation has submitted ends at some time
QueryEventuallyEnds(i) ==
    []<>(~Submitted(i) \/ executions[Val(qid[i])].Status.State \in {"SUCCEEDED", "FAILED", "CANCELLED"})

Rank(op) ==
    CASE op = None -> 0
      [] op = "start_crawler" -> 1
      [] op = "get_crawler" -> 2
      [] op = "get_tables" -> 3
      [] op = "start_query_execution" -> 4
      [] op = "get_query_execution" -> 5

\* the operations an invocation has called
CalledOps(i) == {op \in ServiceOps : Made(i, op) > 0}

\* C10: an invocation calls the services in the order start_crawler,
\* get_crawler (repeated), get_tables, start_query_execution,
\* get_query_execution (repeated): the operation called last is the latest in
\* this order of all it has called, none is called before the one ahead of
\* it, and start_crawler, get_tables and start_query_execution are called at
\* most once, so that the invocation has at most one query execution.
C10_CallOrder ==
    \A i \in Invocations :
        /\ \A op \in CalledOps(i) : Rank(op) <= Rank(lastCall[i])
        /\ lastCall[i] = None <=> CalledOps(i) = {}
        /\ lastCall[i] # None => lastCall[i] \in CalledOps(i)
        /\ \A op \in CalledOps(i) :
              \A before \in ServiceOps : Rank(before) < Rank(op) => before \in CalledOps(i)
        /\ Made(i, "start_crawler") <= 1
        /\ Made(i, "get_tables") <= 1
        /\ Made(i, "start_query_execution") <= 1
        /\ Len(executions) = Made("inv1", "start_query_execution") + Made("inv2", "start_query_execution")
        /\ pc[i] = "get_crawler" => lastCall[i] \in {"start_crawler", "get_crawler"}
        /\ pc[i] = "get_tables" => lastCall[i] = "get_crawler"
        /\ pc[i] = "start_query_execution" => lastCall[i] = "get_tables"
        /\ InQueryWait(i) => lastCall[i] \in {"start_query_execution", "get_query_execution"}

C10_Witness ==
    /\ Returned("inv1") /\ CalledOps("inv1") = ServiceOps
    /\ Made("inv1", "get_crawler") = 3
    /\ Made("inv1", "get_query_execution") = 2
    /\ Len(executions) = 1

\* C11: the start of a crawler that is STARTING or RUNNING, for instance since
\* the other invocation started it, is no error: an invocation that has called
\* start_crawler has not raised, and is in the crawler wait or past it.
C11_StartOfRunningCrawlerIsNoError ==
    \A i \in Invocations :
        Made(i, "start_crawler") = 1 =>
            /\ ~Raised(i)
            /\ InCrawlerWait(i) \/ PastCrawlerWait(i)

\* the Status in the response that an invocation got last
StatusOf(i) == Val(q[i])["QueryExecution"]["Status"]

\* the reason that a returned value brings to the caller: a bool brings none
ReasonOf(result) == IF result \in BOOLEAN THEN None ELSE result["reason"]

EndedBadly(i) == Returned(i) /\ Submitted(i) /\ OneOf(state[i], {"FAILED", "CANCELLED"})

\* C12 as stated: an invocation whose query ended FAILED or CANCELLED with the
\* reason R returns a failure that brings R to the caller.
C12_ReasonReturned ==
    \A i \in Invocations :
        (EndedBadly(i) /\ "StateChangeReason" \in DOMAIN StatusOf(i)) =>
            /\ Val(ret[i]) # TRUE
            /\ ReasonOf(Val(ret[i])) = StatusOf(i)["StateChangeReason"]

\* C12: an invocation whose query ended FAILED or CANCELLED returns False and
\* nothing else; the reason R of the status it sampled last, which is the status
\* of its own query execution, or "Unknown" when the status has none, is in the
\* error entry it logs last. An invocation that returns True has logged no
\* error entry, whether or not the status of its query has a reason.
C12_ReasonLogged ==
    \A i \in Invocations :
        /\ EndedBadly(i) =>
            /\ Is(ret[i], FALSE)
            /\ StatusOf(i) = executions[Val(qid[i])].Status
            /\ log[i][Len(log[i])] =
                  LogEntry("ERROR", QueryNotSucceeded,
                      <<Val(state[i]), Get(StatusOf(i), "StateChangeReason", "Unknown")>>)
        /\ Is(ret[i], TRUE) =>
            /\ \A k \in DOMAIN log[i] : log[i][k].level # "ERROR"
            /\ \A k \in DOMAIN log[i] : \A r \in Reasons : \A a \in DOMAIN log[i][k].args : log[i][k].args[a] # r
        /\ \A k \in DOMAIN log[i] : log[i][k].level = "ERROR" => EndedBadly(i) /\ k = Len(log[i])

C12_Witness ==
    /\ EndedBadly("inv1") /\ Is(state["inv1"], "FAILED")
    /\ StatusOf("inv1") = [State |-> "FAILED", StateChangeReason |-> "Syntax error"]
    /\ log["inv1"][Len(log["inv1"])].args = <<"FAILED", "Syntax error">>

\* C13: an invocation whose catalog listing is not empty takes the Name of the
\* first entry of the TableList as it was returned, whatever its order and
\* length; the query it submits is SELECT * FROM that name, in GLUE_DATABASE.
C13_QueryOverFirstListed ==
    \A i \in Invocations :
        /\ (Listed(i) /\ Len(Val(tables[i])) > 0) =>
            /\ Is(table_name[i], Val(tables[i])[1]["Name"])
            /\ pc[i] = "start_query_execution" \/ Submitted(i)
        /\ Submitted(i) =>
            /\ Len(Val(tables[i])) > 0
            /\ executions[Val(qid[i])].QueryString = select_from \o Val(tables[i])[1]["Name"]
            /\ executions[Val(qid[i])].Database = GLUE_DATABASE
        /\ table_name[i] # Unbound => Listed(i)

\* the table listed first is neither the only one nor the first by name
C13_Witness ==
    /\ Submitted("inv1")
    /\ Val(tables["inv1"]) = <<[Name |-> csv_raw], [Name |-> csv_old]>>
    /\ executions[1].QueryString = select_from \o csv_raw

\* what an invocation holds: its event, its local names, its result, its log
\* entries, and the count of what it has done
StateOf(i) ==
    <<event[i], job_name[i], crawler_name[i], table_prefix[i], waited[i], status[i],
      tables[i], table_name[i], qid[i], q[i], state[i], ret[i], log[i], ncalls[i],
      lastCall[i], sleeps[i]>>

OwnStepsOnly ==
    \A i \in Invocations : pc'[i] = pc[i] => StateOf(i)' = StateOf(i)

OwnQueryDecides ==
    \A i \in Invocations :
        /\ Submitted(i) =>
            /\ Val(qid[i]) \in DOMAIN executions
            /\ executions[Val(qid[i])].QueryString = select_from \o Val(table_name[i])
            /\ \A j \in Invocations \ {i} : Submitted(j) => qid[j] # qid[i]
            /\ state[i] # Unbound =>
                  \/ Is(state[i], executions[Val(qid[i])].Status.State)
                  \/ OneOf(state[i], {"QUEUED", "RUNNING"})
        /\ (Submitted(i) /\ Returned(i)) =>
              (Is(ret[i], TRUE) <=> executions[Val(qid[i])].Status.State = "SUCCEEDED")

\* C14: of two invocations that run at the same time, a step that is not a
\* step of invocation i changes nothing that i holds (its event, crawler name
\* and prefix, waited, the listing and the table name, the query id, the sampled
\* states, its result and its log); and an invocation that has submitted a
\* query samples the execution with its own id, distinct from the other's, and
\* returns True exactly if that execution has SUCCEEDED.
C14_NoSharedState == [][OwnStepsOnly]_vars /\ []OwnQueryDecides

\* both have returned, each after its own query: the first False, the second True
C14_Witness ==
    /\ Returned("inv1") /\ Returned("inv2")
    /\ Submitted("inv1") /\ Submitted("inv2")
    /\ Is(ret["inv1"], FALSE) /\ Is(ret["inv2"], TRUE)
    /\ executions[Val(qid["inv1"])].Status.State = "FAILED"
    /\ executions[Val(qid["inv2"])].Status.State = "SUCCEEDED"
    /\ Is(qid["inv1"], 2) /\ Is(qid["inv2"], 1)

\* C15: waited is a multiple of 5 from 0 to 90 and is 5 times the sleeps done
\* so far; an invocation is at the catalog listing, or past it, only if its last
\* crawler sample was READY or STOPPING, or if waited is 90 after 18 samples
\* that were STARTING or RUNNING; and there is no sample after the 18th sleep,
\* whatever state the crawler is in by then.
C15_WaitedCounts ==
    \A i \in Invocations :
        /\ waited[i] # Unbound =>
            /\ Val(waited[i]) \in {5 * k : k \in 0..18}
            /\ Val(waited[i]) = 5 * sleeps[i]
        /\ (pc[i] = "get_tables" \/ Listed(i)) =>
            \/ OneOf(status[i], {"READY", "STOPPING"})
            \/ /\ Is(waited[i], 90)
               /\ Made(i, "get_crawler") = 18
               /\ OneOf(status[i], {"STARTING", "RUNNING"})
        /\ Made(i, "get_crawler") <= 18
        /\ Made(i, "get_crawler") \in {sleeps[i], sleeps[i] + 1}
        /\ sleeps[i] = 18 =>
            /\ pc[i] \notin {"get_crawler", "sleep"}
            /\ Made(i, "get_crawler") = 18
            /\ TimedOut(i)

\* the crawler has become READY during the 18th sleep: the wait has timed out
C15_Witness ==
    /\ pc["inv1"] = "get_tables" /\ TimedOut("inv1")
    /\ sleeps["inv1"] = 18 /\ Is(waited["inv1"], 90)
    /\ Is(status["inv1"], "RUNNING")
    /\ crawler[Val(crawler_name["inv1"])] = "READY"

\* the event has no detail, or its detail has no jobName
NoJobName(e) == "detail" \notin DOMAIN e \/ "jobName" \notin DOMAIN e["detail"]

\* C16: an invocation whose event has no detail, or a detail without jobName,
\* takes "unknown" as the job name, which holds no marker: once classified it
\* has returned False with the warning as its only log entry, has called no
\* service, and has not raised.
C16_NoJobNameIsUnknown ==
    \A i \in Invocations :
        (event[i] # Unbound /\ NoJobName(Val(event[i]))) =>
            /\ ~Raised(i)
            /\ pc[i] \in {"classify", "done"}
            /\ ncalls[i] = NoCalls /\ lastCall[i] = None
            /\ Classified(i) =>
                /\ Is(job_name[i], unknown)
                /\ ~HasMarker(Val(job_name[i]))
                /\ Returned(i) /\ Is(ret[i], FALSE)
                /\ log[i] = <<LogEntry("WARNING", NoCrawlerFound, <<unknown>>)>>
                /\ crawler_name[i] = Unbound /\ executions = <<>>

C16_Witness ==
    /\ Returned("inv1") /\ Is(ret["inv1"], FALSE)
    /\ Is(event["inv1"], [detail |-> EmptyDict])
    /\ Is(job_name["inv1"], unknown)

\* the places in dcalls of the calls of an operation, and their number
CallsOf(op) == {k \in DOMAIN dcalls : dcalls[k].op = op}

Count(op) == Cardinality(CallsOf(op))

\* deploy_stack has been called and is past its if statement
PastDescribe == Count("describe_stacks") = 1 /\ dpc \notin {"update_stack", "create_stack"}

\* C17: deploy_stack calls update_stack or create_stack, one of them and once:
\* update_stack if and only if describe_stacks returned, create_stack if and
\* only if it raised ClientError. When update_stack raises a ClientError whose
\* text holds "No updates are to be performed", deploy_stack has returned and
\* no waiter was called; when it raises any other ClientError, deploy_stack has
\* raised, and create_stack is not called.
C17_UpdateOrCreate ==
    /\ Count("describe_stacks") <= 1
    /\ Count("update_stack") + Count("create_stack") <= 1
    /\ PastDescribe => Count("update_stack") + Count("create_stack") = 1
    /\ PastDescribe =>
        /\ Count("update_stack") = 1 <=> \A k \in CallsOf("describe_stacks") : ~dcalls[k].raised
        /\ Count("create_stack") = 1 <=> \A k \in CallsOf("describe_stacks") : dcalls[k].raised
    /\ Count("update_stack") = 1 => Is(exists, TRUE)
    /\ Count("create_stack") = 1 => Is(exists, FALSE)
    /\ error # Unbound =>
        /\ dcalls[Len(dcalls)] = Call("update_stack", <<>>, TRUE)
        /\ Count("wait") = 0 /\ Count("create_stack") = 0
        /\ Contains(Val(error), no_updates) => dpc = "returned"
        /\ ~Contains(Val(error), no_updates) => dpc = "raised"
    /\ (error = Unbound /\ dpc \in {"returned", "raised"}) => dcalls[Len(dcalls)].op = "wait"

C17_Witness ==
    /\ dpc = "returned"
    /\ Count("update_stack") = 1 /\ Count("create_stack") = 0 /\ Count("wait") = 0
    /\ error # Unbound /\ Contains(Val(error), no_updates)

\* ensure_bucket has returned
EnsureReturned == dpc \notin {"idle", "head_bucket", "create_bucket", "put_bucket_versioning"}

\* deploy_stack has been called
DeployStackCalled ==
    dpc \in {"describe_stacks", "update_stack", "update_wait", "create_stack", "create_wait"}
        \/ Count("describe_stacks") > 0

\* C18: ensure_bucket calls create_bucket if and only if head_bucket raised
\* ClientError, and its last call, after head_bucket and after create_bucket
\* if that is called, is put_bucket_versioning, which leaves the bucket there
\* with versioning enabled. Each upload_file and head_object of main comes
\* after that call, so that each recorded VersionId is the one of the version
\* just uploaded; and when deploy_stack is called all four archives have been
\* uploaded and lambda_versions holds their four versions.
C18_BucketThenUploadsThenStack ==
    /\ dcalls # <<>> => dcalls[1].op = "head_bucket"
    /\ Count("head_bucket") <= 1 /\ Count("create_bucket") <= 1
    /\ Count("put_bucket_versioning") <= 1
    /\ Count("create_bucket") = 1 =>
        /\ dcalls[1].raised
        /\ dcalls[2].op = "create_bucket"
    /\ (dcalls # <<>> /\ dpc # "create_bucket") =>
        (dcalls[1].raised <=> Count("create_bucket") = 1)
    /\ EnsureReturned =>
        /\ Count("put_bucket_versioning") = 1
        /\ \A k \in CallsOf("put_bucket_versioning") : k = IF dcalls[1].raised THEN 3 ELSE 2
        /\ bucket.exists /\ bucket.versioning
    /\ \A k \in CallsOf("upload_file") \cup CallsOf("head_object") :
        /\ EnsureReturned
        /\ \E j \in CallsOf("put_bucket_versioning") : j < k
        /\ ~dcalls[k].raised
    /\ \A name \in DOMAIN lambda_versions :
        /\ lambda_versions[name] = bucket.objects[LambdaKey(name \o <<zip>>)]
        /\ lambda_versions[name] # NullVersion
    /\ Cardinality(DOMAIN lambda_versions) = source_no
    /\ dpc # "raised" \/ Count("describe_stacks") = 1
    /\ DeployStackCalled =>
        /\ source_no = Len(lambda_sources)
        /\ DOMAIN lambda_versions = VersionParams
        /\ \A key \in LambdaKeys :
              \E u \in CallsOf("upload_file"), h \in CallsOf("head_object") :
                  /\ dcalls[u].key = key /\ dcalls[h].key = key
                  /\ u < h
                  /\ \A d \in CallsOf("describe_stacks") : h < d

\* the bucket was created, all archives and scripts are uploaded, and
\* deploy_stack is about to be called
C18_Witness ==
    /\ dpc = "describe_stacks"
    /\ dcalls[1].raised /\ Count("create_bucket") = 1
    /\ Count("upload_file") = Len(lambda_sources) + MaxScripts
    /\ lambda_versions[<<"LambdaGlueJobFailure">>] = 1

====
